---- MODULE Spec2Model ----
(***************************************************************************)
(* Model of wd_data_load.py: the incremental weather-data ingestion        *)
(* pipeline (discovery of CSV files, per-file read / parse / dedup /       *)
(* append against the observation table, archival of the processed files). *)
(***************************************************************************)
EXTENDS Integers, Sequences, FiniteSets, TLC

(* ------------------------------ bounds -------------------------------- *)
MaxFiles == 2      \* files in the intake directory matching the glob
MaxRows == 2       \* data rows over all intake files together
MaxNameLen == 1    \* characters of a file's derived sensor name
MaxClock == 1      \* clock seconds that pass while the runs are observed

(* --------------------------- sensor catalog --------------------------- *)
\* Rows of the sensors table (s_id, s_name); names are character sequences.
Sensors ==
  { [s_id |-> 1, s_name |-> <<"a", "b">>],
    [s_id |-> 2, s_name |-> <<"c", "b">>] }

SensorIds == {s.s_id : s \in Sensors}

\* Characters a derived sensor name is built from; "." is the regex wildcard.
Alphabet == {"a", "b", "c", "."}

Names == UNION {[1..n -> Alphabet] : n \in 0..MaxNameLen}

(* ------------------------- pure functions ----------------------------- *)
\* pl.col("s_name").str.contains(sensor_name): polars treats the argument
\* as a regular expression (literal=False is the default), so "." in the
\* pattern matches any character of the sensor name.
StrContains(s_name, pattern) ==
  \E off \in 0..(Len(s_name) - Len(pattern)) :
    \A j \in 1..Len(pattern) :
      pattern[j] = "." \/ pattern[j] = s_name[off + j]

\* Plain substring containment, the matching rule the documentation states.
SubstringOf(s_name, pattern) ==
  \E off \in 0..(Len(s_name) - Len(pattern)) :
    \A j \in 1..Len(pattern) : pattern[j] = s_name[off + j]

\* sensors_df.filter(pl.col("s_name").str.contains(sensor_name))
FilterSensors(sensors_df, sensor_name) ==
  {s \in sensors_df : StrContains(s.s_name, sensor_name)}

\* Instants at minute precision.
Instants == {"00:00", "00:05"}

\* A raw timestamp text: "Jan 1 2024 00:05" (plain), "Jan 1, 2024 00:05"
\* (comma), or a text no format matches (bad, denoting no instant).
Malformed == [t |-> "none", form |-> "bad"]

RawTimestamps == [t : Instants, form : {"plain", "comma"}] \cup {Malformed}

\* pl.col('timestamp').str.replace(',', '')
StrReplaceComma(raw) ==
  IF raw.form = "comma" THEN [raw EXCEPT !.form = "plain"] ELSE raw

\* str.strptime(pl.Datetime, format='%b %d %Y %H:%M') is strict: a text
\* that does not match the format raises.
StrptimeOk(raw) == raw.form = "plain"

Strptime(raw) == raw.t

ParseOk(rows) ==
  \A i \in 1..Len(rows) : StrptimeOk(StrReplaceComma(rows[i]))

\* wd_df with the position of the file attached in place of the sensor id.
ParsedRowsFileIndex(rows, sensor, f, r) ==
  [i \in 1..Len(rows) |->
     [sensor |-> f,
      timestamp |-> Strptime(StrReplaceComma(rows[i])),
      src |-> <<r, f, i>>]]

\* wd_df: the parsed rows of a file with the sensor column attached.
ParsedRows(rows, sensor, f, r) ==
  [i \in 1..Len(rows) |->
     [sensor |-> sensor,
      timestamp |-> Strptime(StrReplaceComma(rows[i])),
      src |-> <<r, f, i>>]]

\* The row loop with the test inverted ("in" for "not in").
RECURSIVE DedupInverted(_, _)
DedupInverted(wd_df, existing) ==
  IF wd_df = <<>> THEN <<>>
  ELSE IF Head(wd_df).timestamp \in existing
       THEN <<Head(wd_df)>> \o DedupInverted(Tail(wd_df), existing)
       ELSE DedupInverted(Tail(wd_df), existing)

\* The row loop leaving at the first row found in the snapshot ("break").
RECURSIVE DedupBreak(_, _)
DedupBreak(wd_df, existing) ==
  IF wd_df = <<>> THEN <<>>
  ELSE IF Head(wd_df).timestamp \notin existing
       THEN <<Head(wd_df)>> \o DedupBreak(Tail(wd_df), existing)
       ELSE <<>>

\* The row loop putting each kept row in front of the batch.
RECURSIVE DedupReversed(_, _)
DedupReversed(wd_df, existing) ==
  IF wd_df = <<>> THEN <<>>
  ELSE IF Head(wd_df).timestamp \notin existing
       THEN DedupReversed(Tail(wd_df), existing) \o <<Head(wd_df)>>
       ELSE DedupReversed(Tail(wd_df), existing)

\* The row loop: keep the rows whose timestamp is not in the snapshot.
RECURSIVE Dedup(_, _)
Dedup(wd_df, existing) ==
  IF wd_df = <<>> THEN <<>>
  ELSE IF Head(wd_df).timestamp \notin existing
       THEN <<Head(wd_df)>> \o Dedup(Tail(wd_df), existing)
       ELSE Dedup(Tail(wd_df), existing)

\* The query returning the first row of the table only.
TimestampsOfFirstRow(tbl) ==
  {tbl[i].timestamp : i \in {k \in 1..Len(tbl) : k = 1}}

\* SELECT timestamp FROM schema.wd_tbl
TimestampsOf(tbl) == {tbl[i].timestamp : i \in 1..Len(tbl)}

RemoveAt(lst, i) ==
  [k \in 1..(Len(lst) - 1) |-> IF k < i THEN lst[k] ELSE lst[k + 1]]

\* The enumerate loop of check_for_new_files over the glob result; lst is
\* the list of file indexes, i the 1-based position of the iteration, acc
\* the task mapping in insertion order.  "del wd_csv_file_lst[i]" shortens
\* the list that is being iterated.
RECURSIVE DiscoverLoop(_, _, _, _, _)
DiscoverLoop(lst, i, acc, sensors_df, fs) ==
  IF i > Len(lst) THEN acc
  ELSE LET m == FilterSensors(sensors_df, fs[lst[i]].name)
       IN IF Cardinality(m) # 1
          THEN DiscoverLoop(RemoveAt(lst, i), i + 1, acc, sensors_df, fs)
          ELSE DiscoverLoop(lst, i + 1,
                 Append(acc, [file |-> lst[i],
                              sensor |-> (CHOOSE s \in m : TRUE).s_id]),
                 sensors_df, fs)

\* glob.glob(...) restricted to what is in the intake directory, in the
\* enumeration order of the directory.
RECURSIVE GlobList(_, _, _)
GlobList(n, k, present) ==
  IF k > n THEN <<>>
  ELSE (IF k \in present THEN <<k>> ELSE <<>>) \o GlobList(n, k + 1, present)

(* ------------------------------ inputs -------------------------------- *)
RowSeqs(k) == [1..k -> RawTimestamps]

\* Sequences of n files, named from names, holding at most budget rows
\* together.
RECURSIVE FileSeqs(_, _, _)
FileSeqs(n, budget, names) ==
  IF n = 0 THEN {<<>>}
  ELSE UNION { { <<[name |-> nm, rows |-> rs]>> \o rest :
                   nm \in names, rs \in RowSeqs(k),
                   rest \in FileSeqs(n - 1, budget - k, names) } :
               k \in 0..budget }

\* File names that resolve to one sensor each under the full catalog.
IngestNames == {<<"a">>, <<"c">>}

\* Content of the files of the discovery inputs.
OneRow == <<[t |-> "00:00", form |-> "plain"]>>

StoredRows ==
  [sensor : SensorIds, timestamp : Instants, src : {<<0, 0, 0>>}]

\* The observation table before the first run: empty, or one row.
InitStorages == {<<>>} \cup {<<r>> : r \in StoredRows}

(* ------------------------------- state -------------------------------- *)
VARIABLES
  catalog,              \* rows of the sensors table
  files,                \* the exported CSV files, in directory order
  intake,               \* indexes of the files present in the intake dir
  storage,              \* rows of the observation table, in insert order
  archive,              \* files in the archive dir: [base, sec, run]
  archive_dir,          \* whether the archive directory exists
  run,                  \* number of the current invocation of main()
  pc,                   \* position of the run
  wd_csv_file_dict,     \* task mapping: sequence of [file, sensor]
  pos,                  \* position in the loop over wd_csv_file_dict
  existing_timestamps,  \* snapshot read for the current file
  summary,              \* "Total rows / Appended rows" lines printed
  err,                  \* the exception raised last ("none" if none was)
  snap_at,              \* rows the table held when the snapshot was read
  clock,                \* wall clock, in seconds
  pc2,                  \* position of a second, concurrent run
  wd_csv_file_dict2,    \* its task mapping
  pos2,                 \* its position in the loop over the mapping
  existing_timestamps2, \* its snapshot
  snap_at2              \* rows the table held when it read its snapshot

\* The state of the second run.
p2 == <<pc2, wd_csv_file_dict2, pos2, existing_timestamps2, snap_at2>>

vars == <<catalog, files, intake, storage, archive, archive_dir, run,
          pc, wd_csv_file_dict, pos, existing_timestamps, summary, err,
          snap_at, clock, p2>>

env == <<catalog, files>>

Terminal == {"COMPLETED", "COMPLETED_NOTHING_TO_DO", "ABORTED", "CRASHED"}

\* Inputs for discovery: any catalog, any file names.
InitDiscovery ==
  /\ catalog \in SUBSET Sensors
  /\ files \in UNION {[1..n -> [name : Names, rows : {OneRow}]] :
                        n \in 0..MaxFiles}
  /\ storage = <<>>

\* Inputs for ingestion: files of known sensors, any rows, any table.
InitIngest ==
  /\ catalog = Sensors
  /\ files \in UNION {FileSeqs(n, MaxRows, IngestNames) : n \in 0..MaxFiles}
  /\ storage \in InitStorages

\* The state main() starts in.
InitMain ==
  /\ intake = 1..Len(files)
  /\ archive = {}
  /\ archive_dir = FALSE
  /\ run = 1
  /\ pc = "DISCOVER"
  /\ wd_csv_file_dict = <<>>
  /\ pos = 1
  /\ existing_timestamps = {}
  /\ summary = {}
  /\ err = "none"
  /\ snap_at = 0
  /\ clock = 0

\* The second run before it starts.
InitSecond ==
  /\ wd_csv_file_dict2 = <<>>
  /\ pos2 = 1
  /\ existing_timestamps2 = {}
  /\ snap_at2 = 0

\* One run, no second run beside it.
InitRun == InitMain /\ InitSecond /\ pc2 = "IDLE"

Init == (InitDiscovery \/ InitIngest) /\ InitRun

(* ------------------------------ actions ------------------------------- *)
\* check_for_new_files without the exit on an empty mapping: the loop of
\* main_processing runs zero times and archive_processed_files is called.
DiscoverNoExit ==
  /\ pc = "DISCOVER"
  /\ LET d == DiscoverLoop(GlobList(Len(files), 1, intake), 1, <<>>,
                           catalog, files)
     IN /\ wd_csv_file_dict' = d
        /\ pc' = IF Len(d) = 0 THEN "ARCHIVE_BEGIN" ELSE "LOAD_EXISTING"
  /\ pos' = 1
  /\ UNCHANGED <<env, intake, storage, archive, archive_dir, run,
                 existing_timestamps, summary, err>>
  /\ UNCHANGED <<snap_at, clock, p2>>

\* check_for_new_files, the catalog read succeeding.
Discover ==
  /\ pc = "DISCOVER"
  /\ LET d == DiscoverLoop(GlobList(Len(files), 1, intake), 1, <<>>,
                           catalog, files)
     IN /\ wd_csv_file_dict' = d
        /\ pc' = IF Len(d) = 0 THEN "COMPLETED_NOTHING_TO_DO"
                 ELSE "LOAD_EXISTING"
  /\ pos' = 1
  /\ UNCHANGED <<env, intake, storage, archive, archive_dir, run,
                 existing_timestamps, summary, err>>
  /\ UNCHANGED <<snap_at, clock, p2>>

\* check_for_new_files, the catalog read raising: sys.exit(1).
DiscoverCatalogFail ==
  /\ pc = "DISCOVER"
  /\ pc' = "ABORTED"
  /\ err' = "catalog"
  /\ UNCHANGED <<env, intake, storage, archive, archive_dir, run,
                 wd_csv_file_dict, pos, existing_timestamps, summary>>
  /\ UNCHANGED <<snap_at, clock, p2>>

\* The snapshot read once, before the loop: rows appended by this run are
\* not in it.
LoadExistingStale ==
  /\ pc = "LOAD_EXISTING"
  /\ existing_timestamps' =
       {storage[i].timestamp : i \in {k \in 1..Len(storage) :
                                         storage[k].src[1] # run}}
  /\ pc' = "PARSE"
  /\ UNCHANGED <<env, intake, storage, archive, archive_dir, run,
                 wd_csv_file_dict, pos, summary, err>>
  /\ snap_at' = Len(storage)
  /\ UNCHANGED <<clock, p2>>

\* main_processing, top of the loop body: read the existing timestamps.
LoadExisting ==
  /\ pc = "LOAD_EXISTING"
  /\ existing_timestamps' = TimestampsOf(storage)
  /\ pc' = "PARSE"
  /\ UNCHANGED <<env, intake, storage, archive, archive_dir, run,
                 wd_csv_file_dict, pos, summary, err>>
  /\ snap_at' = Len(storage)
  /\ UNCHANGED <<clock, p2>>

\* The failed read printed and the file skipped ("continue" for exit).
LoadExistingFailSkip ==
  /\ pc = "LOAD_EXISTING"
  /\ err' = "existing"
  /\ pos' = pos + 1
  /\ pc' = IF pos = Len(wd_csv_file_dict) THEN "ARCHIVE_BEGIN"
           ELSE "LOAD_EXISTING"
  /\ UNCHANGED <<env, intake, storage, archive, archive_dir, run,
                 wd_csv_file_dict, existing_timestamps, summary>>
  /\ UNCHANGED <<snap_at, clock, p2>>

\* The read of the existing timestamps raising: sys.exit(1).
LoadExistingFail ==
  /\ pc = "LOAD_EXISTING"
  /\ pc' = "ABORTED"
  /\ err' = "existing"
  /\ UNCHANGED <<env, intake, storage, archive, archive_dir, run,
                 wd_csv_file_dict, pos, existing_timestamps, summary>>
  /\ UNCHANGED <<snap_at, clock, p2>>

\* collect() raising on a row that does not parse; nothing catches it.
ParseFail ==
  /\ pc = "PARSE"
  /\ ~ParseOk(files[wd_csv_file_dict[pos].file].rows)
  /\ pc' = "CRASHED"
  /\ err' = "parse"
  /\ UNCHANGED <<env, intake, storage, archive, archive_dir, run,
                 wd_csv_file_dict, pos, existing_timestamps, summary>>
  /\ UNCHANGED <<snap_at, clock, p2>>

\* The write with if_exists = 'replace': the table becomes the batch.
CommitReplace ==
  /\ pc = "PARSE"
  /\ LET task == wd_csv_file_dict[pos]
         rows == files[task.file].rows
         wd_df == ParsedRows(rows, task.sensor, task.file, run)
         df == Dedup(wd_df, existing_timestamps)
     IN /\ ParseOk(rows)
        /\ storage' = df
        /\ summary' = summary \cup
             {[run |-> run, file |-> task.file,
               total |-> Len(wd_df), appended |-> Len(df)]}
  /\ existing_timestamps' = {}
  /\ pos' = pos + 1
  /\ pc' = IF pos = Len(wd_csv_file_dict) THEN "ARCHIVE_BEGIN"
           ELSE "LOAD_EXISTING"
  /\ UNCHANGED <<env, intake, archive, archive_dir, run,
                 wd_csv_file_dict, err>>
  /\ UNCHANGED <<snap_at, clock, p2>>

\* The file moved to the archive inside the loop, right after its append.
CommitThenArchive ==
  /\ pc = "PARSE"
  /\ LET task == wd_csv_file_dict[pos]
         rows == files[task.file].rows
         wd_df == ParsedRows(rows, task.sensor, task.file, run)
         df == Dedup(wd_df, existing_timestamps)
     IN /\ ParseOk(rows)
        /\ storage' = storage \o df
        /\ summary' = summary \cup
             {[run |-> run, file |-> task.file,
               total |-> Len(wd_df), appended |-> Len(df)]}
        /\ intake' = intake \ {task.file}
        /\ archive' = archive \cup
             {[base |-> task.file, sec |-> clock, run |-> run]}
  /\ existing_timestamps' = {}
  /\ pos' = pos + 1
  /\ pc' = IF pos = Len(wd_csv_file_dict) THEN "COMPLETED"
           ELSE "LOAD_EXISTING"
  /\ UNCHANGED <<env, archive_dir, run, wd_csv_file_dict, err>>
  /\ UNCHANGED <<snap_at, clock, p2>>

\* Parse, dedup against the snapshot, append, report, next file.
Commit ==
  /\ pc = "PARSE"
  /\ LET task == wd_csv_file_dict[pos]
         rows == files[task.file].rows
         wd_df == ParsedRows(rows, task.sensor, task.file, run)
         df == Dedup(wd_df, existing_timestamps)
     IN /\ ParseOk(rows)
        /\ storage' = storage \o df
        /\ summary' = summary \cup
             {[run |-> run, file |-> task.file,
               total |-> Len(wd_df), appended |-> Len(df)]}
  /\ existing_timestamps' = {}
  /\ pos' = pos + 1
  /\ pc' = IF pos = Len(wd_csv_file_dict) THEN "ARCHIVE_BEGIN"
           ELSE "LOAD_EXISTING"
  /\ UNCHANGED <<env, intake, archive, archive_dir, run,
                 wd_csv_file_dict, err>>
  /\ UNCHANGED <<snap_at, clock, p2>>

\* The failed write caught and printed, the loop going on.
CommitFailCaught ==
  /\ pc = "PARSE"
  /\ ParseOk(files[wd_csv_file_dict[pos].file].rows)
  /\ err' = "write"
  /\ existing_timestamps' = {}
  /\ pos' = pos + 1
  /\ pc' = IF pos = Len(wd_csv_file_dict) THEN "ARCHIVE_BEGIN"
           ELSE "LOAD_EXISTING"
  /\ UNCHANGED <<env, intake, storage, archive, archive_dir, run,
                 wd_csv_file_dict, summary>>
  /\ UNCHANGED <<snap_at, clock, p2>>

\* write_database raising; nothing catches it, the batch is not stored.
CommitFail ==
  /\ pc = "PARSE"
  /\ ParseOk(files[wd_csv_file_dict[pos].file].rows)
  /\ pc' = "CRASHED"
  /\ err' = "write"
  /\ UNCHANGED <<env, intake, storage, archive, archive_dir, run,
                 wd_csv_file_dict, pos, existing_timestamps, summary>>
  /\ UNCHANGED <<snap_at, clock, p2>>

\* archive_processed_files: create the archive directory if absent.
ArchiveBegin ==
  /\ pc = "ARCHIVE_BEGIN"
  /\ archive_dir' = TRUE
  /\ pos' = 1
  /\ pc' = "ARCHIVE"
  /\ UNCHANGED <<env, intake, storage, archive, run,
                 wd_csv_file_dict, existing_timestamps, summary, err>>
  /\ UNCHANGED <<snap_at, clock, p2>>

\* The list archive_processed_files is called with.
ArchiveList(d) == [k \in 1..Len(d) |-> d[k].file]

AfterMove ==
  /\ pos' = pos + 1
  /\ pc' = IF pos = Len(wd_csv_file_dict) THEN "COMPLETED" ELSE "ARCHIVE"

\* shutil.move(file, new_filepath) succeeding: the destination name is the
\* base name and the clock second (time.strftime("%Y%m%d%H%M%S")); a file
\* of that name already in the archive directory is replaced.
ArchiveMove ==
  /\ pc = "ARCHIVE"
  /\ LET f == ArchiveList(wd_csv_file_dict)[pos]
     IN /\ f \in intake
        /\ intake' = intake \ {f}
        /\ archive' = {a \in archive : ~(a.base = f /\ a.sec = clock)}
                        \cup {[base |-> f, sec |-> clock, run |-> run]}
  /\ AfterMove
  /\ UNCHANGED <<env, storage, archive_dir, run, wd_csv_file_dict,
                 existing_timestamps, summary, err>>
  /\ UNCHANGED <<snap_at, clock, p2>>

\* shutil.move raising with no try around it: the exception ends the run.
ArchiveMoveFailRaise ==
  /\ pc = "ARCHIVE"
  /\ pc' = "CRASHED"
  /\ err' = "move"
  /\ UNCHANGED <<env, intake, storage, archive, archive_dir, run,
                 wd_csv_file_dict, pos, existing_timestamps, summary>>
  /\ UNCHANGED <<snap_at, clock, p2>>

\* shutil.move raising: caught, printed, the loop goes on.
ArchiveMoveFail ==
  /\ pc = "ARCHIVE"
  /\ AfterMove
  /\ err' = "move"
  /\ UNCHANGED <<env, intake, storage, archive, archive_dir, run,
                 wd_csv_file_dict, existing_timestamps, summary>>
  /\ UNCHANGED <<snap_at, clock, p2>>

\* main() is invoked a second time, after a run that committed files and
\* after the same exports were put back into the intake directory.  Any
\* number of clock seconds up to MaxClock, or none, passed in between; the
\* clock is read by the archive loop only (time.strftime).
Rerun ==
  /\ pc \in Terminal
  /\ run = 1
  /\ summary # {}
  /\ run' = run + 1
  /\ intake' = 1..Len(files)
  /\ pc' = "DISCOVER"
  /\ wd_csv_file_dict' = <<>>
  /\ pos' = 1
  /\ existing_timestamps' = {}
  /\ err' = "none"
  /\ UNCHANGED <<env, storage, archive, archive_dir, summary>>
  /\ snap_at' = 0
  /\ clock' \in clock..MaxClock
  /\ UNCHANGED p2

Next ==
  \/ Discover
  \/ DiscoverCatalogFail
  \/ LoadExisting
  \/ LoadExistingFail
  \/ ParseFail
  \/ Commit
  \/ CommitFail
  \/ ArchiveBegin
  \/ ArchiveMove
  \/ ArchiveMoveFail

Spec == Init /\ [][Next]_vars

\* A run followed by a second run over the same exports.
NextRerun == Next \/ Rerun

\* Inputs for re-ingestion: files of one sensor, any rows, a table that is
\* empty or holds one row of that sensor.
InitRerun ==
  /\ catalog = Sensors
  /\ files \in UNION {FileSeqs(n, MaxRows, {<<"a">>}) : n \in 0..MaxFiles}
  /\ storage \in {s \in InitStorages : \A i \in DOMAIN s : s[i].sensor = 1}
  /\ InitRun

SpecRerun == InitRerun /\ [][NextRerun]_vars

(* ----------------------- a second, concurrent run -------------------- *)
\* The steps of a second invocation of main() working on the same intake
\* directory and the same table while the first one runs.  Its rows carry
\* the run number run + 1.  Its archive loop is not followed: it does not
\* touch the table.
P2Same == UNCHANGED <<env, intake, archive, archive_dir, run, pc,
                      wd_csv_file_dict, pos, existing_timestamps, err,
                      snap_at, clock>>

P2Discover ==
  /\ pc2 = "DISCOVER"
  /\ LET d == DiscoverLoop(GlobList(Len(files), 1, intake), 1, <<>>,
                           catalog, files)
     IN /\ wd_csv_file_dict2' = d
        /\ pc2' = IF Len(d) = 0 THEN "COMPLETED_NOTHING_TO_DO"
                  ELSE "LOAD_EXISTING"
  /\ pos2' = 1
  /\ P2Same
  /\ UNCHANGED <<storage, summary, existing_timestamps2, snap_at2>>

P2DiscoverCatalogFail ==
  /\ pc2 = "DISCOVER"
  /\ pc2' = "ABORTED"
  /\ P2Same
  /\ UNCHANGED <<storage, summary, wd_csv_file_dict2, pos2,
                 existing_timestamps2, snap_at2>>

P2LoadExisting ==
  /\ pc2 = "LOAD_EXISTING"
  /\ existing_timestamps2' = TimestampsOf(storage)
  /\ snap_at2' = Len(storage)
  /\ pc2' = "PARSE"
  /\ P2Same
  /\ UNCHANGED <<storage, summary, wd_csv_file_dict2, pos2>>

P2LoadExistingFail ==
  /\ pc2 = "LOAD_EXISTING"
  /\ pc2' = "ABORTED"
  /\ P2Same
  /\ UNCHANGED <<storage, summary, wd_csv_file_dict2, pos2,
                 existing_timestamps2, snap_at2>>

\* collect() raising: a row does not parse, or the first run has moved the
\* file to the archive in the meantime.
P2ParseFail ==
  /\ pc2 = "PARSE"
  /\ \/ ~ParseOk(files[wd_csv_file_dict2[pos2].file].rows)
     \/ wd_csv_file_dict2[pos2].file \notin intake
  /\ pc2' = "CRASHED"
  /\ P2Same
  /\ UNCHANGED <<storage, summary, wd_csv_file_dict2, pos2,
                 existing_timestamps2, snap_at2>>

\* The second run appending every parsed row, the row loop's test left out.
P2CommitNoDedup ==
  /\ pc2 = "PARSE"
  /\ LET task == wd_csv_file_dict2[pos2]
         rows == files[task.file].rows
         wd_df == ParsedRows(rows, task.sensor, task.file, run + 1)
     IN /\ task.file \in intake
        /\ ParseOk(rows)
        /\ storage' = storage \o wd_df
        /\ summary' = summary \cup
             {[run |-> run + 1, file |-> task.file,
               total |-> Len(wd_df), appended |-> Len(wd_df)]}
  /\ existing_timestamps2' = {}
  /\ pos2' = pos2 + 1
  /\ pc2' = IF pos2 = Len(wd_csv_file_dict2) THEN "ARCHIVE_BEGIN"
            ELSE "LOAD_EXISTING"
  /\ P2Same
  /\ UNCHANGED <<wd_csv_file_dict2, snap_at2>>

P2Commit ==
  /\ pc2 = "PARSE"
  /\ LET task == wd_csv_file_dict2[pos2]
         rows == files[task.file].rows
         wd_df == ParsedRows(rows, task.sensor, task.file, run + 1)
         df == Dedup(wd_df, existing_timestamps2)
     IN /\ task.file \in intake
        /\ ParseOk(rows)
        /\ storage' = storage \o df
        /\ summary' = summary \cup
             {[run |-> run + 1, file |-> task.file,
               total |-> Len(wd_df), appended |-> Len(df)]}
  /\ existing_timestamps2' = {}
  /\ pos2' = pos2 + 1
  /\ pc2' = IF pos2 = Len(wd_csv_file_dict2) THEN "ARCHIVE_BEGIN"
            ELSE "LOAD_EXISTING"
  /\ P2Same
  /\ UNCHANGED <<wd_csv_file_dict2, snap_at2>>

P2CommitFail ==
  /\ pc2 = "PARSE"
  /\ wd_csv_file_dict2[pos2].file \in intake
  /\ ParseOk(files[wd_csv_file_dict2[pos2].file].rows)
  /\ pc2' = "CRASHED"
  /\ P2Same
  /\ UNCHANGED <<storage, summary, wd_csv_file_dict2, pos2,
                 existing_timestamps2, snap_at2>>

NextConcurrent ==
  \/ Next
  \/ P2Discover
  \/ P2DiscoverCatalogFail
  \/ P2LoadExisting
  \/ P2LoadExistingFail
  \/ P2ParseFail
  \/ P2Commit
  \/ P2CommitFail

\* Inputs for two concurrent runs: files of one sensor, any rows, an empty
\* table.
InitConcurrent ==
  /\ catalog = Sensors
  /\ files \in UNION {FileSeqs(n, MaxRows, {<<"a">>}) : n \in 0..MaxFiles}
  /\ storage = <<>>
  /\ InitMain
  /\ InitSecond
  /\ pc2 = "DISCOVER"

SpecConcurrent == InitConcurrent /\ [][NextConcurrent]_vars

(* ------------------------- notions of the claims ---------------------- *)
AllFiles == 1..Len(files)

Tasks == DOMAIN wd_csv_file_dict

TaskFiles == {wd_csv_file_dict[k].file : k \in Tasks}

\* check_for_new_files has returned the task mapping, or has exited with
\* "No new files found".
Discovered == pc # "DISCOVER" /\ ~(pc = "ABORTED" /\ err = "catalog")

\* The instant a raw timestamp text parses to.
Parsed(raw) == Strptime(StrReplaceComma(raw))

\* The catalog sensors whose name contains the derived name as a substring.
SubstringMatches(name) == {s \in catalog : SubstringOf(s.s_name, name)}

\* The rows of storage with a given sensor and timestamp.
RowsWith(sensor, t) ==
  {j \in DOMAIN storage :
     storage[j].sensor = sensor /\ storage[j].timestamp = t}

\* The file's commit (append and report) completed in run r.
Committed(r, f) == \E e \in summary : e.run = r /\ e.file = f

\* A step that completes the append of the current file.
CommitStep == pc = "PARSE" /\ pc' \in {"LOAD_EXISTING", "ARCHIVE_BEGIN"}

(* ------------------------------- claims ------------------------------- *)
\* C1: no loss -- after a run that completed, storage holds a row for every
\* (sensor_id, timestamp) pair of every processed file.
C1_NoLoss ==
  pc = "COMPLETED" =>
    \A k \in Tasks :
      \A i \in DOMAIN files[wd_csv_file_dict[k].file].rows :
        RowsWith(wd_csv_file_dict[k].sensor,
                 Parsed(files[wd_csv_file_dict[k].file].rows[i])) # {}

\* C2: no duplicates -- storage holds at most one row per (sensor_id,
\* timestamp) pair occurring in a file whose commit completed.
C2_NoDuplicates ==
  \A k \in Tasks :
    Committed(run, wd_csv_file_dict[k].file) =>
      \A i \in DOMAIN files[wd_csv_file_dict[k].file].rows :
        Cardinality(RowsWith(wd_csv_file_dict[k].sensor,
          Parsed(files[wd_csv_file_dict[k].file].rows[i]))) <= 1

\* C3: idempotence under re-ingestion -- a file committed by the first run
\* has zero rows appended by the second run: its report says 0 and storage
\* holds no row written for it by the second run.
C3_Idempotent ==
  \A f \in AllFiles :
    Committed(1, f) =>
      /\ \A e \in summary : (e.run = 2 /\ e.file = f) => e.appended = 0
      /\ \A j \in DOMAIN storage :
           ~(storage[j].src[1] = 2 /\ storage[j].src[2] = f)

\* C3 witness: a file whose rows the first run appended has been committed
\* again by the second run.
C3_Witness ==
  /\ run = 2
  /\ \E e1, e2 \in summary :
       /\ e1.run = 1 /\ e2.run = 2 /\ e1.file = e2.file
       /\ e1.appended > 0

\* C4: a commit appends exactly the rows of the file whose parsed timestamp
\* is not in the snapshot read for the file: a row in the snapshot is not in
\* the batch, every other row is.
C4_BatchIsDiff ==
  [][CommitStep =>
       LET f == wd_csv_file_dict[pos].file
           batch == {storage'[j].src : j \in (Len(storage) + 1)..Len(storage')}
       IN \A i \in DOMAIN files[f].rows :
            (Parsed(files[f].rows[i]) \in existing_timestamps)
              <=> (<<run, f, i>> \notin batch)]_vars

\* C4 witness: the end-to-end scenario -- a file of two rows, one of them
\* at a timestamp storage already held for some sensor, one row appended.
C4_Witness ==
  /\ Len(storage) = 2
  /\ storage[1].src[1] = 0
  /\ \E e \in summary : e.total = 2 /\ e.appended = 1 /\ e.run = 1

\* C5: cross-file visibility -- within one run no timestamp is appended for
\* two different files.
C5_CrossFileVisible ==
  \A i, j \in DOMAIN storage :
    (/\ storage[i].src[1] # 0
     /\ storage[i].src[1] = storage[j].src[1]
     /\ storage[i].src[2] # storage[j].src[2])
      => storage[i].timestamp # storage[j].timestamp

\* C5 witness: two files sharing a timestamp were both committed, the
\* earlier one appended it and the later one dropped it.
C5_Witness ==
  \E e1, e2 \in summary :
    /\ e1.file # e2.file /\ e1.run = e2.run
    /\ e1.appended > 0 /\ e2.appended < e2.total
    /\ \A j \in DOMAIN storage : storage[j].src[1] # 0

\* C6: discovery completeness -- every intake file whose derived name is
\* contained in exactly one catalog sensor's name is in the task mapping
\* with that sensor's id.
C6_DiscoveryComplete ==
  (Discovered /\ run = 1) =>
    \A f \in AllFiles :
      Cardinality(SubstringMatches(files[f].name)) = 1 =>
        \E k \in Tasks :
          /\ wd_csv_file_dict[k].file = f
          /\ wd_csv_file_dict[k].sensor \in
               {s.s_id : s \in SubstringMatches(files[f].name)}

C8_FailureIsolated ==
  err \in {"parse", "write"} =>
    ~(pc = "CRASHED" /\ pos < Len(wd_csv_file_dict))

\* C9: only committed files are archived -- an archived file was resolved to
\* exactly one sensor at discovery and its append completed in the run that
\* archived it; a file skipped at discovery or whose parse or write failed
\* is in the intake directory.
C9_ArchivedWereCommitted ==
  /\ \A a \in archive :
       /\ a.base \in TaskFiles
       /\ Cardinality(FilterSensors(catalog, files[a.base].name)) = 1
       /\ Committed(a.run, a.base)
  /\ \A f \in AllFiles :
       (Discovered /\ f \notin TaskFiles) => f \in intake
  /\ (pc = "CRASHED" /\ pos \in Tasks) =>
       wd_csv_file_dict[pos].file \in intake

\* C9 witness: a run that skipped one file at discovery and committed and
\* archived another.
C9_Witness ==
  /\ pc = "COMPLETED"
  /\ archive # {}
  /\ \E f \in AllFiles : f \notin TaskFiles /\ f \in intake

\* C10: abort on catalog failure -- a failed read of the sensor catalog or
\* of the existing timestamps ends the run aborted; an aborted run has
\* archived nothing, every file is in the intake directory, and no step
\* follows that appends, processes a file or moves one.
C10_AbortIsFinal ==
  /\ [](err \in {"catalog", "existing"} => pc = "ABORTED")
  /\ [](pc = "ABORTED" => (archive = {} /\ intake = AllFiles))
  /\ [][pc = "ABORTED" =>
         UNCHANGED <<storage, intake, archive, summary, pos, pc>>]_vars

\* C10 witness: the read of the existing timestamps failed for the second
\* file, after the first file was committed.
C10_Witness ==
  /\ pc = "ABORTED"
  /\ err = "existing"
  /\ \E e \in summary : e.appended > 0

\* C11: nothing to do -- when discovery yields an empty task mapping the run
\* ends in the nothing-to-do outcome with no error, no snapshot read, no row
\* appended, no archive directory created and no file moved.
C11_NothingToDo ==
  (Discovered /\ Tasks = {}) =>
    /\ pc = "COMPLETED_NOTHING_TO_DO"
    /\ err = "none"
    /\ existing_timestamps = {} /\ snap_at = 0
    /\ summary = {}
    /\ \A j \in DOMAIN storage : storage[j].src[1] = 0
    /\ archive_dir = FALSE
    /\ archive = {}
    /\ intake = AllFiles

\* C11 witness: two files in the intake directory, both skipped.
C11_Witness ==
  /\ pc = "COMPLETED_NOTHING_TO_DO"
  /\ Len(files) = 2

\* C12: archive never overwrites -- no archive move removes or replaces a
\* file that is in the archive directory.
C12_NoOverwrite ==
  [][\A a \in archive : a \in archive']_vars

\* C13: archive failure isolation -- a move that fails leaves the file in
\* the intake directory and storage unchanged, and the loop goes on to the
\* next file of the list (or ends, after the last).
C13_MoveFailureIsolated ==
  [][(pc = "ARCHIVE" /\ archive' = archive) =>
       /\ intake' = intake
       /\ storage' = storage
       /\ pos' = pos + 1
       /\ pc' = IF pos = Len(wd_csv_file_dict) THEN "COMPLETED"
                ELSE "ARCHIVE"]_vars

\* C13 witness: the move of the first file failed, the second file was
\* archived all the same.
C13_Witness ==
  /\ pc = "COMPLETED"
  /\ Len(wd_csv_file_dict) = 2
  /\ wd_csv_file_dict[1].file \in intake
  /\ \E a \in archive : a.base = wd_csv_file_dict[2].file

\* C14: append-only storage -- every step keeps the rows of the table in
\* place and unmodified; the table changes only in the commit of a file
\* task not committed before, and a file whose rows are all in the snapshot
\* leaves it unchanged.
C14_AppendOnly ==
  [][/\ Len(storage') >= Len(storage)
     /\ SubSeq(storage', 1, Len(storage)) = storage
     /\ storage' # storage =>
          (CommitStep /\ ~Committed(run, wd_csv_file_dict[pos].file))
     /\ (CommitStep /\
         \A i \in DOMAIN files[wd_csv_file_dict[pos].file].rows :
           Parsed(files[wd_csv_file_dict[pos].file].rows[i])
             \in existing_timestamps)
          => storage' = storage]_vars

\* C14 witness: a table that held a row got a second one appended, and a
\* file whose only row was already present was committed.
C14_Witness ==
  /\ Len(storage) = 2
  /\ storage[1].src[1] = 0
  /\ \E e \in summary : e.total = 1 /\ e.appended = 0

\* C15: row accounting -- for a committed file, rows appended plus rows
\* whose timestamp is in the snapshot equals rows parsed, and the report
\* states these numbers.
C15_RowAccounting ==
  [][CommitStep =>
       LET f == wd_csv_file_dict[pos].file
           present == {i \in DOMAIN files[f].rows :
                         Parsed(files[f].rows[i]) \in existing_timestamps}
           appended == Len(storage') - Len(storage)
       IN /\ appended + Cardinality(present) = Len(files[f].rows)
          /\ summary' = summary \cup
               {[run |-> run, file |-> f,
                 total |-> Len(files[f].rows), appended |-> appended]}]_vars

\* C15 witness: a file of two rows at one timestamp already in the table
\* was committed with nothing appended.
C15_Witness ==
  \E e \in summary : e.total = 2 /\ e.appended = 0

\* A step of the second run that completes the append of its current file.
P2CommitStep == pc2 = "PARSE" /\ pc2' \in {"LOAD_EXISTING", "ARCHIVE_BEGIN"}

\* The rows a step appends.
NewRows == (Len(storage) + 1)..Len(storage')

\* C16: two interleaved runs can double-insert, one run alone cannot -- a
\* run appends a row at a timestamp the table holds only if that row of the
\* table was appended after the run read its snapshot, i.e. by the other
\* run between the read and the append.
C16_DoubleInsertOnlyInWindow ==
  [][/\ CommitStep =>
          \A j \in NewRows : \A i \in DOMAIN storage :
            storage[i].timestamp = storage'[j].timestamp => i > snap_at
     /\ P2CommitStep =>
          \A j \in NewRows : \A i \in DOMAIN storage :
            storage[i].timestamp = storage'[j].timestamp => i > snap_at2]_vars

\* C16 witness: both runs read the existing timestamps before either
\* appended, and the same row of the same file is in the table twice.
C16_Witness ==
  \E i, j \in DOMAIN storage :
    /\ i < j
    /\ i > snap_at /\ i > snap_at2
    /\ storage[i].src[1] # 0
    /\ storage[i].src[1] # storage[j].src[1]
    /\ storage[i].src[2] = storage[j].src[2]
    /\ storage[i].src[3] = storage[j].src[3]
    /\ storage[i].sensor = storage[j].sensor
    /\ storage[i].timestamp = storage[j].timestamp

\* C17: archive comes last -- a file of this run is in the archive only
\* when every file task of the run has completed its append.
C17_ArchiveLast ==
  (\E a \in archive : a.run = run) =>
    \A k \in Tasks : Committed(run, wd_csv_file_dict[k].file)

\* C17 witness: the first of two files is archived, the second not yet.
C17_Witness ==
  /\ pc = "ARCHIVE"
  /\ Len(wd_csv_file_dict) = 2
  /\ archive # {}

\* C18: sensor/file correspondence -- every row appended by the run carries
\* the sensor id discovery resolved for its file, an id of the catalog.
C18_SensorOfFile ==
  \A j \in DOMAIN storage :
    storage[j].src[1] # 0 =>
      \E k \in Tasks :
        /\ wd_csv_file_dict[k].file = storage[j].src[2]
        /\ wd_csv_file_dict[k].sensor = storage[j].sensor
        /\ storage[j].sensor \in {s.s_id : s \in catalog}

\* C18 witness: rows of two files of different sensors were appended.
C18_Witness ==
  \E i, j \in DOMAIN storage :
    /\ storage[i].src[1] # 0 /\ storage[j].src[1] # 0
    /\ storage[i].sensor # storage[j].sensor

\* C19: order preservation -- the batch appended for a file keeps the rows
\* in file order, and the row loop does not add to the snapshot: of two
\* rows at one timestamp absent from the snapshot both are appended.
C19_OrderPreserved ==
  [][CommitStep =>
       LET f == wd_csv_file_dict[pos].file
           new == (Len(storage) + 1)..Len(storage')
       IN /\ \A i, j \in new :
               i < j => storage'[i].src[3] < storage'[j].src[3]
          /\ \A i \in DOMAIN files[f].rows :
               Parsed(files[f].rows[i]) \notin existing_timestamps =>
                 \E j \in new : storage'[j].src = <<run, f, i>>]_vars

\* C19 witness: two rows of one file were appended.
C19_Witness ==
  \E i, j \in DOMAIN storage :
    /\ i < j
    /\ storage[i].src[1] # 0
    /\ storage[i].src[2] = storage[j].src[2]

\* C20: termination -- a run that has stopped is in one of COMPLETED,
\* COMPLETED_NOTHING_TO_DO and ABORTED, and ABORTED is reached only after a
\* failed read of the sensor catalog or of the existing timestamps.
C20_TerminalStates ==
  /\ (~ENABLED Next) =>
       pc \in {"COMPLETED", "COMPLETED_NOTHING_TO_DO", "ABORTED"}
  /\ pc = "ABORTED" => err \in {"catalog", "existing"}

TypeOK ==
  /\ catalog \subseteq Sensors
  /\ intake \subseteq 1..Len(files)
  /\ run \in {1, 2}
  /\ pc \in Terminal \cup {"DISCOVER", "LOAD_EXISTING", "PARSE",
                           "ARCHIVE_BEGIN", "ARCHIVE"}
  /\ err \in {"none", "catalog", "existing", "parse", "write", "move"}
====
